---- MODULE Spec2Model ----
(***************************************************************************)
(* NodeConductor Plus: the DigitalOcean droplet lifecycle task chains      *)
(* (digitalocean/tasks.py), the requests that schedule them                *)
(* (aws/backend.py start/stop/restart/destroy pattern) and the vendor      *)
(* actions they poll.                                                      *)
(***************************************************************************)
EXTENDS Integers, Sequences, FiniteSets, TLC

(* ------------------------------ bounds -------------------------------- *)

\* lifecycle operations requested in one behaviour
MaxChains == 2

\* agreements created in one behaviour
MaxAgreements == 2

(* ----------------------------- constants ------------------------------ *)

\* @shared_task(max_retries=300, default_retry_delay=3)
max_retries == 300

(* ------------------------------ domains ------------------------------- *)

Droplets == {"d1"}
SPLs == {"spl1", "spl2"}
Sizes == {"s1", "s2"}

\* Droplet.service_project_link
service_project_link(d) == "spl1"

NoAction == 0

\* structure_models.Resource.States; a row that is not in the table has
\* state "absent" (not created yet) or "deleted"
States ==
    {"Provisioning Scheduled", "Provisioning", "Online", "Offline",
     "Starting Scheduled", "Starting", "Stopping Scheduled", "Stopping",
     "Erred", "Deletion Scheduled", "Deleting",
     "Resizing Scheduled", "Resizing", "Restarting Scheduled", "Restarting"}

Transitional == {"Provisioning", "Starting", "Stopping", "Restarting", "Resizing"}
Settled == {"Online", "Offline", "Erred"}

ChainOps == {"provision", "start", "stop", "restart", "resize"}
Ops == ChainOps \cup {"destroy"}

\* the django-fsm transitions of the resource state field
TransitionSource(t) ==
    CASE t = "begin_provisioning"  -> {"Provisioning Scheduled"}
      [] t = "set_offline"         -> {"Provisioning", "Stopping", "Resizing"}
      [] t = "schedule_starting"   -> {"Offline"}
      [] t = "begin_starting"      -> {"Starting Scheduled"}
      [] t = "set_online"          -> {"Starting", "Provisioning", "Restarting"}
      [] t = "schedule_stopping"   -> {"Online"}
      [] t = "begin_stopping"      -> {"Stopping Scheduled"}
      [] t = "schedule_deletion"   -> {"Offline", "Erred"}
      [] t = "begin_deleting"      -> {"Deletion Scheduled"}
      [] t = "schedule_resizing"   -> {"Offline"}
      [] t = "begin_resizing"      -> {"Resizing Scheduled"}
      [] t = "set_resized"         -> {"Resizing"}
      [] t = "schedule_restarting" -> {"Online"}
      [] t = "begin_restarting"    -> {"Restarting Scheduled"}
      [] t = "set_erred"           -> States

TransitionTarget(t) ==
    CASE t = "begin_provisioning"  -> "Provisioning"
      [] t = "set_offline"         -> "Offline"
      [] t = "schedule_starting"   -> "Starting Scheduled"
      [] t = "begin_starting"      -> "Starting"
      [] t = "set_online"          -> "Online"
      [] t = "schedule_stopping"   -> "Stopping Scheduled"
      [] t = "begin_stopping"      -> "Stopping"
      [] t = "schedule_deletion"   -> "Deletion Scheduled"
      [] t = "begin_deleting"      -> "Deleting"
      [] t = "schedule_resizing"   -> "Resizing Scheduled"
      [] t = "begin_resizing"      -> "Resizing"
      [] t = "set_resized"         -> "Offline"
      [] t = "schedule_restarting" -> "Restarting Scheduled"
      [] t = "begin_restarting"    -> "Restarting"
      [] t = "set_erred"           -> "Erred"

\* the scheduling transition a request applies before it dispatches the task
ScheduleOf(op) ==
    CASE op = "start"   -> "schedule_starting"
      [] op = "stop"    -> "schedule_stopping"
      [] op = "restart" -> "schedule_restarting"
      [] op = "resize"  -> "schedule_resizing"
      [] op = "destroy" -> "schedule_deletion"

\* the processing transition of the chain's request task
BeginOf(op) ==
    CASE op = "provision" -> "begin_provisioning"
      [] op = "start"     -> "begin_starting"
      [] op = "stop"      -> "begin_stopping"
      [] op = "restart"   -> "begin_restarting"
      [] op = "resize"    -> "begin_resizing"
      [] op = "destroy"   -> "begin_deleting"

\* link= of the chain
LinkOf(op) ==
    CASE op = "provision" -> "set_online"
      [] op = "start"     -> "set_online"
      [] op = "stop"      -> "set_offline"
      [] op = "restart"   -> "set_online"
      [] op = "resize"    -> "set_resized"

(* ------------------------------- state -------------------------------- *)

VARIABLES
    droplets,   \* the Droplet table: d -> row, or Absent
    chains,     \* the task chains dispatched so far, in dispatch order
    actions,    \* vendor side: action id -> status
    alert,      \* spl -> the token-scope alert is open
    response,   \* outcome of the last lifecycle request
    nc_droplets,        \* pull_droplets: the Droplet rows of the settings
    backend_droplets,   \* pull_droplets: vendor droplet id -> status
    completed,          \* pull_droplets completed and the vendor has not changed since
    handled,            \* the last call under digitalocean_error_handler
    instance,           \* the last EC2 node converted by to_instance
    volume,             \* the last EC2 volume converted by to_volume
    plans,              \* the Plan table
    agreements,         \* the Agreement table, pk = position
    quotas,             \* customer -> the plan whose quotas were applied last
    scheduled,          \* activate_agreement messages sent, in order
    reply,              \* outcome of the last plans request
    requests,           \* the callback requests in progress: view -> its position
    pushed,             \* push_agreement calls made, in order
    backend_ssh_keys,   \* vendor side: fingerprint -> the key exists
    ssh_calls           \* the vendor calls and the outcome of the last remove_ssh_key

\* the state of the backends' pull and import routines
sync == <<nc_droplets, backend_droplets, completed, handled, instance, volume>>

\* the state of the plans application
billing == <<plans, agreements, quotas, scheduled, reply>>

\* the callback requests in progress and the SSH keys
others == <<requests, pushed, backend_ssh_keys, ssh_calls>>

vars == <<droplets, chains, actions, alert, response, sync, billing, others>>

Deleted == [state |-> "deleted", start_time |-> "None", ip_address |-> "None",
            size |-> "s1", error_message |-> ""]

Absent == [state |-> "absent", start_time |-> "None", ip_address |-> "None",
           size |-> "s1", error_message |-> ""]

NewDroplet == [Absent EXCEPT !.state = "Provisioning Scheduled"]

NewChain(op, d, sz) ==
    [op |-> op, droplet |-> d, size |-> sz, pc |-> "request",
     result |-> NoAction, retries |-> 0, polled |-> NoAction,
     status |-> "none", sawErrored |-> FALSE,
     task |-> "none", error |-> "none", calls |-> 0, opens |-> 0, closes |-> 0,
     link |-> "no", link_error |-> "no"]

\* no pull or import has run
SyncIdle ==
    /\ nc_droplets = <<>>
    /\ backend_droplets = <<>>
    /\ completed = FALSE
    /\ handled = <<>>
    /\ instance = <<>>
    /\ volume = <<>>

\* no plan and no agreement
BillingIdle ==
    /\ plans = <<>>
    /\ agreements = <<>>
    /\ quotas = <<>>
    /\ scheduled = <<>>
    /\ reply = "none"

OthersIdle ==
    /\ requests = <<>>
    /\ pushed = <<>>
    /\ backend_ssh_keys = <<>>
    /\ ssh_calls = <<>>

Init ==
    /\ OthersIdle
    /\ droplets \in [Droplets -> {Absent,
                                  [Absent EXCEPT !.state = "Offline"],
                                  [Absent EXCEPT !.state = "Online",
                                                 !.start_time = "set",
                                                 !.ip_address = "ip"]}]
    /\ chains = <<>>
    /\ actions = <<>>
    /\ alert = [s \in SPLs |-> FALSE]
    /\ response = "none"
    /\ SyncIdle
    /\ BillingIdle

(* --------------------------- error handling --------------------------- *)

\* the classes digitalocean_error_handler raises from a backend method
VendorErrors == {"TokenScopeError", "NotFoundError", "DigitalOceanBackendError"}

\* handlers.open_token_scope_alert(spl)
open_token_scope_alert(al, spl) == [al EXCEPT ![spl] = TRUE]

\* handlers.close_token_scope_alert(spl)
close_token_scope_alert(al, spl) == [al EXCEPT ![spl] = FALSE]

\* faulty variant: the wrapper catches TokenScopeError without re-raising it
save_token_scope_Swallow(res, al, spl) ==
    IF res.raised = "TokenScopeError"
    THEN [raised |-> "none", value |-> res.value,
          alert |-> open_token_scope_alert(al, spl), opens |-> 1, closes |-> 0]
    ELSE IF res.raised = "none"
    THEN [raised |-> "none", value |-> res.value,
          alert |-> close_token_scope_alert(al, spl), opens |-> 0, closes |-> 1]
    ELSE [raised |-> res.raised, value |-> res.value,
          alert |-> al, opens |-> 0, closes |-> 0]

\* faulty variant: the wrapper catches every exception, not TokenScopeError alone
save_token_scope_AnyError(res, al, spl) ==
    IF res.raised # "none"
    THEN [raised |-> res.raised, value |-> res.value,
          alert |-> open_token_scope_alert(al, spl), opens |-> 1, closes |-> 0]
    ELSE [raised |-> "none", value |-> res.value,
          alert |-> close_token_scope_alert(al, spl), opens |-> 0, closes |-> 1]

\* save_token_scope: res is what the wrapped task did, [raised, value];
\* the wrapper's own outcome, the alert table after it and the handler calls
save_token_scope(res, al, spl) ==
    IF res.raised = "TokenScopeError"
    THEN [raised |-> res.raised, value |-> res.value,
          alert |-> open_token_scope_alert(al, spl), opens |-> 1, closes |-> 0]
    ELSE IF res.raised = "none"
    THEN [raised |-> "none", value |-> res.value,
          alert |-> close_token_scope_alert(al, spl), opens |-> 0, closes |-> 1]
    ELSE [raised |-> res.raised, value |-> res.value,
          alert |-> al, opens |-> 0, closes |-> 0]

\* save_error_message: stores the text of the error on the entity and re-raises
save_error_message(row, raised) ==
    IF raised = "none" THEN row ELSE [row EXCEPT !.error_message = "message"]

\* transition(Droplet, t): the entity may take transition t
can_proceed(row, t) == row.state \in TransitionSource(t)

(* ------------------------- lifecycle requests ------------------------- *)

\* destroy(vm, force=True): vm.delete() and nothing else
destroy_force(d) ==
    /\ droplets[d].state \in States
    /\ droplets' = [droplets EXCEPT ![d] = Deleted]
    /\ response' = "accepted"
    /\ UNCHANGED <<chains, actions, alert, sync, billing, others>>

InFlight(c) == chains[c].pc # "done"

\* resource creation followed by backend.provision: the new row starts in
\* Provisioning Scheduled and the provision task is sent
provision(d) ==
    /\ Len(chains) < MaxChains
    /\ droplets[d].state = "absent"
    /\ \E sz \in Sizes :
         /\ droplets' = [droplets EXCEPT ![d] = [NewDroplet EXCEPT !.size = sz]]
         /\ chains' = Append(chains, NewChain("provision", d, sz))
    /\ response' = "accepted"
    /\ UNCHANGED <<actions, alert, sync, billing, others>>

\* faulty variant: the task is sent without the scheduling transition
Schedule_Unguarded(d, op, sz) ==
    /\ Len(chains) < MaxChains
    /\ droplets[d].state \in States
    /\ chains' = Append(chains, NewChain(op, d, sz))
    /\ response' = "accepted"
    /\ UNCHANGED <<droplets, actions, alert, sync, billing, others>>

\* faulty variant: the task is sent before the scheduling transition is tried
Schedule_SendBeforeTransition(d, op, sz) ==
    /\ Len(chains) < MaxChains
    /\ droplets[d].state \in States
    /\ chains' = Append(chains, NewChain(op, d, sz))
    /\ IF can_proceed(droplets[d], ScheduleOf(op))
       THEN /\ droplets' = [droplets EXCEPT
                              ![d].state = TransitionTarget(ScheduleOf(op))]
            /\ response' = "accepted"
       ELSE /\ response' = "rejected"
            /\ UNCHANGED droplets
    /\ UNCHANGED <<actions, alert, sync, billing, others>>

\* vm.schedule_<op>(); vm.save(); send_task(<op>)(uuid): the transition raises
\* TransitionNotAllowed outside its source states and nothing is sent
Schedule(d, op, sz) ==
    /\ Len(chains) < MaxChains
    /\ droplets[d].state \in States
    /\ IF can_proceed(droplets[d], ScheduleOf(op))
       THEN /\ droplets' = [droplets EXCEPT
                              ![d].state = TransitionTarget(ScheduleOf(op))]
            /\ chains' = Append(chains, NewChain(op, d, sz))
            /\ response' = "accepted"
       ELSE /\ response' = "rejected"
            /\ UNCHANGED <<droplets, chains>>
    /\ UNCHANGED <<actions, alert, sync, billing, others>>

start(d) == Schedule(d, "start", droplets[d].size)

stop(d) == Schedule(d, "stop", droplets[d].size)

restart(d) == Schedule(d, "restart", droplets[d].size)

resize(d) == \E sz \in Sizes : Schedule(d, "resize", sz)

request_destroy(d) == Schedule(d, "destroy", droplets[d].size)

(* ---------------------------- request tasks --------------------------- *)

\* faulty variant: the chain is applied without link_error
Fail_NoErrback(c, e) == [chains[c] EXCEPT !.pc = "done", !.error = e]

\* the task of a chain fails: celery calls the chain's link_error
Fail(c, e) == [chains[c] EXCEPT !.pc = "link_error", !.error = e]

\* @transition(Droplet, begin_<op>) @save_error_message @save_token_scope
\* around a body that makes one backend call and returns its action id
RequestTask(c, op) ==
    /\ c \in 1..Len(chains)
    /\ chains[c].pc = "request"
    /\ chains[c].op = op
    /\ LET ch == chains[c]
           d == ch.droplet
           row == droplets[d]
           t == BeginOf(op)
       IN IF ~can_proceed(row, t)
          THEN /\ chains' = [chains EXCEPT ![c] = Fail(c, "StateChangeError")]
               /\ UNCHANGED <<droplets, actions, alert>>
          ELSE \E out \in {"ok"} \cup VendorErrors :
                 LET begun == [row EXCEPT !.state = TransitionTarget(t)]
                     saved == IF op = "resize"
                              THEN [begun EXCEPT !.size = ch.size]
                              ELSE begun
                     id == Len(actions) + 1
                     res == IF out = "ok"
                            THEN [raised |-> "none", value |-> id]
                            ELSE [raised |-> out, value |-> NoAction]
                     w == save_token_scope(res, alert, service_project_link(d))
                 IN /\ droplets' = [droplets EXCEPT
                                      ![d] = save_error_message(saved, w.raised)]
                    /\ actions' = IF out = "ok"
                                  THEN Append(actions, "in-progress")
                                  ELSE actions
                    /\ alert' = w.alert
                    /\ chains' = [chains EXCEPT ![c] =
                         IF w.raised = "none"
                         THEN [ch EXCEPT !.pc = "poll", !.result = w.value,
                                         !.task = out,
                                         !.calls = 1, !.opens = w.opens,
                                         !.closes = w.closes]
                         ELSE [Fail(c, w.raised) EXCEPT
                                         !.result = w.value, !.task = out,
                                         !.calls = 1, !.opens = w.opens,
                                         !.closes = w.closes]]
    /\ UNCHANGED <<response, sync, billing, others>>

provision_droplet(c) == RequestTask(c, "provision")

begin_starting(c) == RequestTask(c, "start")

begin_stopping(c) == RequestTask(c, "stop")

begin_restarting(c) == RequestTask(c, "restart")

begin_resizing(c) == RequestTask(c, "resize")

\* faulty variant: a NotFoundError of the vendor call is taken as the droplet
\* being gone already and the row is deleted
destroy_NotFoundAsDestroyed(c) ==
    /\ c \in 1..Len(chains)
    /\ chains[c].pc = "request"
    /\ chains[c].op = "destroy"
    /\ LET ch == chains[c]
           d == ch.droplet
           row == droplets[d]
       IN IF ~can_proceed(row, "begin_deleting")
          THEN /\ chains' = [chains EXCEPT ![c] =
                               [ch EXCEPT !.pc = "done",
                                          !.error = "StateChangeError"]]
               /\ UNCHANGED <<droplets, alert>>
          ELSE \E out \in {"ok"} \cup VendorErrors :
                 LET begun == [row EXCEPT !.state = TransitionTarget("begin_deleting")]
                     erred == [begun EXCEPT !.state = TransitionTarget("set_erred")]
                     gone == out \in {"ok", "NotFoundError"}
                     res == IF gone
                            THEN [raised |-> "none", value |-> NoAction]
                            ELSE [raised |-> out, value |-> NoAction]
                     w == save_token_scope(res, alert, service_project_link(d))
                 IN /\ droplets' = [droplets EXCEPT ![d] =
                                      IF gone
                                      THEN Deleted
                                      ELSE save_error_message(erred, w.raised)]
                    /\ alert' = w.alert
                    /\ chains' = [chains EXCEPT ![c] =
                                    [ch EXCEPT !.pc = "done", !.error = w.raised,
                                               !.task = out, !.calls = 1, !.opens = w.opens,
                                               !.closes = w.closes]]
    /\ UNCHANGED <<actions, response, sync, billing, others>>

\* the destroy task: not a chain; on any error of the backend call it runs
\* set_erred itself and re-raises, otherwise it deletes the row
destroy(c) ==
    /\ c \in 1..Len(chains)
    /\ chains[c].pc = "request"
    /\ chains[c].op = "destroy"
    /\ LET ch == chains[c]
           d == ch.droplet
           row == droplets[d]
       IN IF ~can_proceed(row, "begin_deleting")
          THEN /\ chains' = [chains EXCEPT ![c] =
                               [ch EXCEPT !.pc = "done",
                                          !.error = "StateChangeError"]]
               /\ UNCHANGED <<droplets, alert>>
          ELSE \E out \in {"ok"} \cup VendorErrors :
                 LET begun == [row EXCEPT !.state = TransitionTarget("begin_deleting")]
                     erred == IF can_proceed(begun, "set_erred")
                              THEN [begun EXCEPT !.state = TransitionTarget("set_erred")]
                              ELSE begun
                     res == IF out = "ok"
                            THEN [raised |-> "none", value |-> NoAction]
                            ELSE [raised |-> out, value |-> NoAction]
                     w == save_token_scope(res, alert, service_project_link(d))
                 IN /\ droplets' = [droplets EXCEPT ![d] =
                                      IF out = "ok"
                                      THEN Deleted
                                      ELSE save_error_message(erred, w.raised)]
                    /\ alert' = w.alert
                    /\ chains' = [chains EXCEPT ![c] =
                                    [ch EXCEPT !.pc = "done", !.error = w.raised,
                                               !.task = out, !.calls = 1, !.opens = w.opens,
                                               !.closes = w.closes]]
    /\ UNCHANGED <<actions, response, sync, billing, others>>

(* ------------------------------ the poller ---------------------------- *)

\* the vendor works on an action: in-progress -> completed | errored
VendorProgress(a) ==
    /\ a \in 1..Len(actions)
    /\ actions[a] = "in-progress"
    /\ \E st \in {"completed", "errored"} : actions' = [actions EXCEPT ![a] = st]
    /\ UNCHANGED <<droplets, chains, alert, response, sync, billing, others>>

\* @retry_if_false: a false result calls current_task.retry(), which re-queues
\* the task with retries + 1 while retries < budget and raises
\* MaxRetriesExceededError, turned into RuntimeError, after that
retry_if_false(ch, is_true, budget) ==
    IF is_true
    THEN [ch EXCEPT !.pc = "link"]
    ELSE IF ch.retries < budget
    THEN [ch EXCEPT !.retries = ch.retries + 1]
    ELSE [ch EXCEPT !.pc = "link_error", !.error = "RuntimeError"]

\* one execution of the poller's body under @retry_if_false with the given
\* retry budget: Droplet.objects.get, get_action(action_id), status test
PollTask(c, action_id, budget) ==
    /\ c \in 1..Len(chains)
    /\ chains[c].pc = "poll"
    /\ LET ch == chains[c]
       IN IF droplets[ch.droplet].state \notin States
          THEN chains' = [chains EXCEPT ![c] = Fail(c, "DoesNotExist")]
          ELSE \E out \in {"status", "DataReadError"} :
                 IF out = "DataReadError" \/ action_id \notin 1..Len(actions)
                 THEN chains' = [chains EXCEPT ![c] =
                                   [Fail(c, "DataReadError") EXCEPT
                                       !.polled = action_id]]
                 ELSE LET st == actions[action_id]
                          seen == [ch EXCEPT
                                     !.polled = action_id, !.status = st,
                                     !.sawErrored = ch.sawErrored \/ st = "errored"]
                      IN chains' = [chains EXCEPT ![c] =
                                      retry_if_false(seen, st = "completed", budget)]
    /\ UNCHANGED <<droplets, actions, alert, response, sync, billing, others>>

\* faulty variant: one retry more than the budget
wait_for_action_complete_OffByOne(c) ==
    c \in 1..Len(chains) /\ PollTask(c, chains[c].result, max_retries + 1)

\* faulty variant: the poller is given the first action of the vendor, not the
\* result of the chain's request task
wait_for_action_complete_StaleId(c) ==
    c \in 1..Len(chains) /\ PollTask(c, 1, max_retries)

\* wait_for_action_complete(action_id, droplet_uuid): the chain passes the
\* request task's result as action_id
wait_for_action_complete(c) ==
    c \in 1..Len(chains) /\ PollTask(c, chains[c].result, max_retries)

(* --------------------------- terminal callbacks ----------------------- *)

\* a callback ends the chain: the poller's message (its action id, its retry
\* count and what it last saw) is consumed and nothing of it remains
Consumed(ch) ==
    [ch EXCEPT !.result = NoAction, !.retries = 0, !.polled = NoAction,
               !.status = "none", !.sawErrored = FALSE]

Finish(ch, slot, how) ==
    IF slot = "link"
    THEN [Consumed(ch) EXCEPT !.pc = "done", !.link = how]
    ELSE [Consumed(ch) EXCEPT !.pc = "done", !.link_error = how]

\* link=set_online.si(droplet_uuid)
set_online(c) ==
    /\ c \in 1..Len(chains)
    /\ chains[c].pc = "link"
    /\ LinkOf(chains[c].op) = "set_online"
    /\ LET ch == chains[c]
           d == ch.droplet
           row == droplets[d]
       IN IF ~can_proceed(row, "set_online")
          THEN /\ chains' = [chains EXCEPT ![c] = Finish(ch, "link", "raised")]
               /\ UNCHANGED droplets
          ELSE \E out \in {"ok", "DigitalOceanBackendError"} :
                 LET online == [row EXCEPT !.state = TransitionTarget("set_online")]
                 IN IF out = "ok"
                    THEN /\ droplets' = [droplets EXCEPT ![d] =
                                           [online EXCEPT !.start_time = "set",
                                                          !.ip_address = "ip"]]
                         /\ chains' = [chains EXCEPT ![c] =
                                         Finish(ch, "link", "returned")]
                    ELSE /\ droplets' = [droplets EXCEPT ![d] = online]
                         /\ chains' = [chains EXCEPT ![c] =
                                         Finish(ch, "link", "raised")]
    /\ UNCHANGED <<actions, alert, response, sync, billing, others>>

\* faulty variant: set_offline without its @transition
set_offline_NoTransition(c) ==
    /\ c \in 1..Len(chains)
    /\ chains[c].pc = "link"
    /\ LinkOf(chains[c].op) = "set_offline"
    /\ droplets' = [droplets EXCEPT ![chains[c].droplet].start_time = "None"]
    /\ chains' = [chains EXCEPT ![c] = Finish(chains[c], "link", "returned")]
    /\ UNCHANGED <<actions, alert, response, sync, billing, others>>

\* link=set_offline.si(droplet_uuid)
set_offline(c) ==
    /\ c \in 1..Len(chains)
    /\ chains[c].pc = "link"
    /\ LinkOf(chains[c].op) = "set_offline"
    /\ LET ch == chains[c]
           d == ch.droplet
           row == droplets[d]
       IN IF ~can_proceed(row, "set_offline")
          THEN /\ chains' = [chains EXCEPT ![c] = Finish(ch, "link", "raised")]
               /\ UNCHANGED droplets
          ELSE /\ droplets' = [droplets EXCEPT ![d] =
                                 [row EXCEPT !.state = TransitionTarget("set_offline"),
                                             !.start_time = "None"]]
               /\ chains' = [chains EXCEPT ![c] = Finish(ch, "link", "returned")]
    /\ UNCHANGED <<actions, alert, response, sync, billing, others>>

\* link=set_resized.si(droplet_uuid)
set_resized(c) ==
    /\ c \in 1..Len(chains)
    /\ chains[c].pc = "link"
    /\ LinkOf(chains[c].op) = "set_resized"
    /\ LET ch == chains[c]
           d == ch.droplet
           row == droplets[d]
       IN IF ~can_proceed(row, "set_resized")
          THEN /\ chains' = [chains EXCEPT ![c] = Finish(ch, "link", "raised")]
               /\ UNCHANGED droplets
          ELSE /\ droplets' = [droplets EXCEPT ![d] =
                                 [row EXCEPT !.state = TransitionTarget("set_resized")]]
               /\ chains' = [chains EXCEPT ![c] = Finish(ch, "link", "returned")]
    /\ UNCHANGED <<actions, alert, response, sync, billing, others>>

\* faulty variant: set_erred without its @transition
set_erred_NoTransition(c) ==
    /\ c \in 1..Len(chains)
    /\ chains[c].pc = "link_error"
    /\ chains' = [chains EXCEPT ![c] = Finish(chains[c], "link_error", "returned")]
    /\ UNCHANGED <<droplets, actions, alert, response, sync, billing, others>>

\* link_error=set_erred.si(droplet_uuid)
set_erred(c) ==
    /\ c \in 1..Len(chains)
    /\ chains[c].pc = "link_error"
    /\ LET ch == chains[c]
           d == ch.droplet
           row == droplets[d]
       IN IF ~can_proceed(row, "set_erred")
          THEN /\ chains' = [chains EXCEPT ![c] = Finish(ch, "link_error", "raised")]
               /\ UNCHANGED droplets
          ELSE /\ droplets' = [droplets EXCEPT ![d] =
                                 [row EXCEPT !.state = TransitionTarget("set_erred")]]
               /\ chains' = [chains EXCEPT ![c] =
                               Finish(ch, "link_error", "returned")]
    /\ UNCHANGED <<actions, alert, response, sync, billing, others>>

(* ---------------------------- specification --------------------------- *)

\* what the celery workers do
Worker ==
    \E c \in 1..MaxChains :
        \/ provision_droplet(c)
        \/ begin_starting(c)
        \/ begin_stopping(c)
        \/ begin_restarting(c)
        \/ begin_resizing(c)
        \/ destroy(c)
        \/ wait_for_action_complete(c)
        \/ set_online(c)
        \/ set_offline(c)
        \/ set_resized(c)
        \/ set_erred(c)

Next ==
    \/ \E d \in Droplets : provision(d)
    \/ \E d \in Droplets : start(d)
    \/ \E d \in Droplets : stop(d)
    \/ \E d \in Droplets : restart(d)
    \/ \E d \in Droplets : resize(d)
    \/ \E d \in Droplets : request_destroy(d)
    \/ \E a \in 1..MaxChains : VendorProgress(a)
    \/ Worker

Spec == Init /\ [][Next]_vars

\* celery runs every queued task
FairSpec == Spec /\ WF_vars(Worker)

\* the requests of the backend including the forced destroy
ForceNext ==
    \/ Next
    \/ \E d \in Droplets : destroy_force(d)

ForceSpec == Init /\ [][ForceNext]_vars

(* ----------------------- pull_droplets (DigitalOcean) ------------------ *)

\* the Droplet rows of the backend's settings
NcDroplets == {"n1", "n2"}

\* the ids the vendor gives its droplets; a row not created at the vendor yet
\* has the blank backend_id
BackendIds == {"101", "102"}
NoBackendId == ""

\* droplet.status at the vendor; "absent": not in get_all_droplets()
VendorStatus == {"absent", "new", "active", "off", "archive", "locked"}

\* Droplet.States as pull_droplets uses them
SyncStates ==
    {"CREATION_SCHEDULED", "CREATING", "UPDATE_SCHEDULED", "UPDATING",
     "DELETION_SCHEDULED", "DELETING", "OK", "ERRED"}

SyncTransitions ==
    {"begin_creating", "begin_updating", "begin_deleting", "schedule_updating",
     "schedule_deleting", "set_ok", "set_erred", "recover"}

\* the django-fsm transitions of that state field
SyncSource(t) ==
    CASE t = "begin_creating"    -> {"CREATION_SCHEDULED"}
      [] t = "begin_updating"    -> {"UPDATE_SCHEDULED"}
      [] t = "begin_deleting"    -> {"DELETION_SCHEDULED"}
      [] t = "schedule_updating" -> {"OK", "ERRED"}
      [] t = "schedule_deleting" -> {"OK", "ERRED"}
      [] t = "set_ok"            -> {"UPDATING", "CREATING"}
      [] t = "set_erred"         -> SyncStates
      [] t = "recover"           -> {"ERRED"}

SyncTarget(t) ==
    CASE t = "begin_creating"    -> "CREATING"
      [] t = "begin_updating"    -> "UPDATING"
      [] t = "begin_deleting"    -> "DELETING"
      [] t = "schedule_updating" -> "UPDATE_SCHEDULED"
      [] t = "schedule_deleting" -> "DELETION_SCHEDULED"
      [] t = "set_ok"            -> "OK"
      [] t = "set_erred"         -> "ERRED"
      [] t = "recover"           -> "OK"

\* the texts of digitalocean.DataReadError the handler tells apart, and others
AccessDenied == "You do not have access for the attempted action."
ResourceNotFound == "The resource you were accessing could not be found."
Messages ==
    {AccessDenied, ResourceNotFound,
     "You do not have access for the attempted action",
     "API Rate limit exceeded."}

\* what a call of the vendor's manager does: a result, a DataReadError with a
\* message, or an exception of another class
Returned(v) == [raised |-> "none", message |-> "", value |-> v]
NoCall == Returned("none")
ManagerOutcomes ==
    {Returned("droplets")}
    \cup {[raised |-> "DataReadError", message |-> m, value |-> "none"] : m \in Messages}
    \cup {[raised |-> "ConnectionError", message |-> "timed out", value |-> "none"]}

\* faulty variant: the two message tests are exchanged
digitalocean_error_handler_Swapped(res) ==
    IF res.raised = "DataReadError"
    THEN [res EXCEPT !.raised =
            IF res.message = ResourceNotFound THEN "TokenScopeError"
            ELSE IF res.message = AccessDenied THEN "NotFoundError"
            ELSE "DigitalOceanBackendError"]
    ELSE res

\* digitalocean_error_handler: res is what the wrapped function did
digitalocean_error_handler(res) ==
    IF res.raised = "DataReadError"
    THEN [res EXCEPT !.raised =
            IF res.message = AccessDenied THEN "TokenScopeError"
            ELSE IF res.message = ResourceNotFound THEN "NotFoundError"
            ELSE "DigitalOceanBackendError"]
    ELSE res

\* _get_droplet_states: (state, runtime_state) of a vendor droplet
_get_droplet_states(status) ==
    CASE status = "new"     -> <<"CREATING", "provisioning">>
      [] status = "active"  -> <<"OK", "ONLINE">>
      [] status = "off"     -> <<"OK", "OFFLINE">>
      [] status = "archive" -> <<"OK", "archive">>
      [] OTHER              -> <<"ERRED", "error">>

NcRow(b, st) == [backend_id |-> b, state |-> st, runtime_state |-> ""]

\* rows the table can hold: a row without backend_id is scheduled, being
\* created or erred; a row with one has left CREATION_SCHEDULED
NcRows ==
    {NcRow(NoBackendId, st) : st \in {"CREATION_SCHEDULED", "CREATING", "ERRED"}}
    \cup {NcRow(b, st) : b \in BackendIds, st \in SyncStates \ {"CREATION_SCHEDULED"}}

SyncInit ==
    /\ OthersIdle
    /\ droplets = [d \in Droplets |-> Absent]
    /\ chains = <<>>
    /\ actions = <<>>
    /\ alert = [s \in SPLs |-> FALSE]
    /\ response = "none"
    /\ BillingIdle
    /\ nc_droplets \in
         {t \in [NcDroplets -> NcRows] :
             \A n, k \in NcDroplets :
                 (n # k /\ t[n].backend_id = t[k].backend_id) =>
                     t[n].backend_id = NoBackendId}
    /\ backend_droplets \in [BackendIds -> VendorStatus]
    /\ completed = FALSE
    /\ handled = [raw |-> NoCall, out |-> NoCall]
    /\ instance = <<>>
    /\ volume = <<>>

\* the vendor's droplets change status, appear and disappear
VendorChange(b) ==
    /\ \E st \in VendorStatus \ {backend_droplets[b]} :
         backend_droplets' = [backend_droplets EXCEPT ![b] = st]
    /\ completed' = FALSE
    /\ UNCHANGED <<nc_droplets, handled, instance, volume>>
    /\ UNCHANGED <<droplets, chains, actions, alert, response, billing, others>>

\* pull_droplets under transaction.atomic; get_all_droplets is a call of the
\* manager under digitalocean_error_handler
pull_droplets ==
    \E raw \in ManagerOutcomes :
        LET res == digitalocean_error_handler(raw)
            backend_ids == {b \in BackendIds : backend_droplets[b] # "absent"}
            nc_ids == {nc_droplets[n].backend_id : n \in NcDroplets}
        IN /\ handled' = [raw |-> raw, out |-> res]
           /\ IF res.raised # "none"
              THEN UNCHANGED <<nc_droplets, completed>>
              ELSE \* {droplet.backend_id: droplet for droplet in nc_droplets}:
                   \* one row for each backend_id, the last the query gives
                   \E dict \in {f \in [nc_ids -> NcDroplets] :
                                  \A b \in nc_ids : nc_droplets[f[b]].backend_id = b} :
                       /\ nc_droplets' =
                            [n \in NcDroplets |->
                               LET b == nc_droplets[n].backend_id
                               IN IF dict[b] # n
                                  THEN nc_droplets[n]
                                  ELSE IF b \notin backend_ids
                                  THEN [nc_droplets[n] EXCEPT
                                          !.state = SyncTarget("set_erred")]
                                  ELSE [nc_droplets[n] EXCEPT
                                          !.state = _get_droplet_states(backend_droplets[b])[1],
                                          !.runtime_state = _get_droplet_states(backend_droplets[b])[2]]]
                       /\ completed' = TRUE
           /\ UNCHANGED <<backend_droplets, instance, volume>>
           /\ UNCHANGED <<droplets, chains, actions, alert, response, billing, others>>

SyncNext ==
    \/ \E b \in BackendIds : VendorChange(b)
    \/ pull_droplets

SyncSpec == SyncInit /\ [][SyncNext]_vars

(* ---------------------- SSH keys (DigitalOcean) ------------------------ *)

Fingerprints == {"f1", "f2", "f3"}

\* no remove_ssh_key call made yet
NoSshCall == [fingerprint |-> "", pulled |-> "none", destroys |-> 0, raised |-> "none"]

\* the ways a call of the vendor's API fails whatever the key
KeyFailures ==
    {[raised |-> "DataReadError", message |-> m, value |-> "none"] :
        m \in {AccessDenied, "API Rate limit exceeded."}}
    \cup {[raised |-> "ConnectionError", message |-> "timed out", value |-> "none"]}

\* backend_ssh_key.load() for the fingerprint: the key when it exists at the
\* vendor, the vendor's not-found message when it does not
LoadOutcomes(f) ==
    KeyFailures \cup
    (IF backend_ssh_keys[f]
     THEN {Returned("ssh_key")}
     ELSE {[raised |-> "DataReadError", message |-> ResourceNotFound, value |-> "none"]})

\* backend_ssh_key.destroy(): the key is gone afterwards when the call
\* returns; it may have been removed by someone else since it was loaded
DestroyOutcomes ==
    KeyFailures \cup
    {Returned("destroyed"),
     [raised |-> "DataReadError", message |-> ResourceNotFound, value |-> "none"]}

\* pull_ssh_key(name, fingerprint), under digitalocean_error_handler
pull_ssh_key(load) == digitalocean_error_handler(load)

KeyInit ==
    /\ droplets = [d \in Droplets |-> Absent]
    /\ chains = <<>>
    /\ actions = <<>>
    /\ alert = [s \in SPLs |-> FALSE]
    /\ response = "none"
    /\ SyncIdle
    /\ BillingIdle
    /\ requests = <<>>
    /\ pushed = <<>>
    /\ backend_ssh_keys \in [Fingerprints -> BOOLEAN]
    /\ ssh_calls = NoSshCall

\* a key is added at the vendor (push_ssh_key) or removed there by someone else
VendorKeyChange(f) ==
    /\ backend_ssh_keys' = [backend_ssh_keys EXCEPT ![f] = ~@]
    /\ UNCHANGED <<requests, pushed, ssh_calls>>
    /\ UNCHANGED <<droplets, chains, actions, alert, response, sync, billing>>

\* faulty variant: NotFoundError of the lookup is not caught
remove_ssh_key_NoExcept(f) ==
    /\ \E load \in LoadOutcomes(f) :
         LET pulled == pull_ssh_key(load)
         IN IF pulled.raised # "none"
            THEN /\ ssh_calls' = [fingerprint |-> f, pulled |-> pulled.raised,
                                  destroys |-> 0,
                                  raised |-> digitalocean_error_handler(pulled).raised]
                 /\ UNCHANGED backend_ssh_keys
            ELSE \E out \in DestroyOutcomes :
                   /\ ssh_calls' = [fingerprint |-> f, pulled |-> "none",
                                    destroys |-> 1,
                                    raised |-> digitalocean_error_handler(out).raised]
                   /\ backend_ssh_keys' =
                        IF out.raised = "none" \/ out.message = ResourceNotFound
                        THEN [backend_ssh_keys EXCEPT ![f] = FALSE]
                        ELSE backend_ssh_keys
    /\ UNCHANGED <<requests, pushed>>
    /\ UNCHANGED <<droplets, chains, actions, alert, response, sync, billing>>

\* DigitalOceanBaseBackend.remove_ssh_key(name, fingerprint), under
\* digitalocean_error_handler
remove_ssh_key(f) ==
    /\ \E load \in LoadOutcomes(f) :
         LET pulled == pull_ssh_key(load)
         IN IF pulled.raised = "NotFoundError"
            THEN /\ ssh_calls' = [fingerprint |-> f, pulled |-> pulled.raised,
                                  destroys |-> 0, raised |-> "none"]
                 /\ UNCHANGED backend_ssh_keys
            ELSE IF pulled.raised # "none"
            THEN /\ ssh_calls' = [fingerprint |-> f, pulled |-> pulled.raised,
                                  destroys |-> 0,
                                  raised |-> digitalocean_error_handler(pulled).raised]
                 /\ UNCHANGED backend_ssh_keys
            ELSE \E out \in DestroyOutcomes :
                   /\ ssh_calls' = [fingerprint |-> f, pulled |-> "none",
                                    destroys |-> 1,
                                    raised |-> digitalocean_error_handler(out).raised]
                   /\ backend_ssh_keys' =
                        IF out.raised = "none" \/ out.message = ResourceNotFound
                        THEN [backend_ssh_keys EXCEPT ![f] = FALSE]
                        ELSE backend_ssh_keys
    /\ UNCHANGED <<requests, pushed>>
    /\ UNCHANGED <<droplets, chains, actions, alert, response, sync, billing>>

KeyNext ==
    \/ \E f \in Fingerprints : VendorKeyChange(f)
    \/ \E f \in Fingerprints : remove_ssh_key(f)

KeySpec == KeyInit /\ [][KeyNext]_vars

(* --------------------------- import (AWS) ----------------------------- *)

\* libcloud.compute.types.NodeState
NodeState ==
    {"RUNNING", "REBOOTING", "TERMINATED", "PENDING", "UNKNOWN", "STOPPED",
     "SUSPENDED", "ERROR", "PAUSED", "STARTING", "STOPPING"}

\* libcloud.compute.types.StorageVolumeState
StorageVolumeState ==
    {"AVAILABLE", "ERROR", "INUSE", "CREATING", "DELETING", "DELETED",
     "BACKUP", "ATTACHING", "UNKNOWN"}

\* faulty variant: a state missing from the table is taken as switched off
_get_instance_state_DefaultOffline(state) ==
    CASE state = "RUNNING"    -> "Online"
      [] state = "REBOOTING"  -> "Restarting"
      [] state = "PENDING"    -> "Provisioning"
      [] state = "ERROR"      -> "Erred"
      [] OTHER                -> "Offline"

\* _get_instance_state: aws_to_nodeconductor.get(state, States.ERRED)
_get_instance_state(state) ==
    CASE state = "RUNNING"    -> "Online"
      [] state = "REBOOTING"  -> "Restarting"
      [] state = "TERMINATED" -> "Offline"
      [] state = "PENDING"    -> "Provisioning"
      [] state = "STOPPED"    -> "Offline"
      [] state = "SUSPENDED"  -> "Offline"
      [] state = "PAUSED"     -> "Offline"
      [] state = "ERROR"      -> "Erred"
      [] OTHER                -> "Erred"

\* _get_volume_state: aws_to_nodeconductor.get(state, States.ERRED)
_get_volume_state(state) ==
    CASE state = "AVAILABLE"  -> "OK"
      [] state = "INUSE"      -> "OK"
      [] state = "CREATING"   -> "CREATING"
      [] state = "DELETING"   -> "DELETING"
      [] state = "ATTACHING"  -> "UPDATING"
      [] OTHER                -> "ERRED"

ImportInit ==
    /\ OthersIdle
    /\ droplets = [d \in Droplets |-> Absent]
    /\ chains = <<>>
    /\ actions = <<>>
    /\ alert = [s \in SPLs |-> FALSE]
    /\ response = "none"
    /\ BillingIdle
    /\ nc_droplets = <<>>
    /\ backend_droplets = <<>>
    /\ completed = FALSE
    /\ handled = <<>>
    /\ instance = [node_state |-> "none", state |-> "none"]
    /\ volume = [runtime_state |-> "none", state |-> "none"]

\* to_instance: the resource as offered for import; list_volumes may fail
to_instance ==
    /\ \E st \in NodeState : \E out \in {"ok", "AWSBackendError"} :
         instance' = IF out = "ok"
                     THEN [node_state |-> st, state |-> _get_instance_state(st)]
                     ELSE instance
    /\ UNCHANGED <<nc_droplets, backend_droplets, completed, handled, volume>>
    /\ UNCHANGED <<droplets, chains, actions, alert, response, billing, others>>

\* to_volume
to_volume ==
    /\ \E st \in StorageVolumeState :
         volume' = [runtime_state |-> st, state |-> _get_volume_state(st)]
    /\ UNCHANGED <<nc_droplets, backend_droplets, completed, handled, instance>>
    /\ UNCHANGED <<droplets, chains, actions, alert, response, billing, others>>

ImportNext ==
    \/ to_instance
    \/ to_volume

ImportSpec == ImportInit /\ [][ImportNext]_vars

(* -------------------------------- plans ------------------------------- *)

Customers == {"c1", "c2"}
PlanIds == {"p1", "p2"}
Users == {"staff", "alice", "bob"}

\* request.user.is_staff
is_staff(u) == u = "staff"

\* the customers where u holds CustomerRole.OWNER
owner(u, c) == <<u, c>> \in {<<"alice", "c1">>, <<"bob", "c2">>}

\* customer.has_user(user): any role in the customer
has_user(c, u) == owner(u, c) \/ <<u, c>> = <<"bob", "c1">>

\* Agreement.States
AgreementStates == {"created", "pending", "approved", "active", "cancelled", "erred"}

AgreementTransitions ==
    {"set_pending", "set_approved", "set_active", "set_cancelled", "set_erred"}

\* faulty variant: set_approved is also allowed on a created agreement
AgreementSource_ApprovedFromCreated(t) ==
    CASE t = "set_pending"   -> {"created"}
      [] t = "set_approved"  -> {"created", "pending"}
      [] t = "set_active"    -> {"approved"}
      [] t = "set_cancelled" -> {"pending", "active"}
      [] t = "set_erred"     -> AgreementStates

\* @transition(field=state, source=...)
AgreementSource(t) ==
    CASE t = "set_pending"   -> {"created"}
      [] t = "set_approved"  -> {"pending"}
      [] t = "set_active"    -> {"approved"}
      [] t = "set_cancelled" -> {"pending", "active"}
      [] t = "set_erred"     -> AgreementStates

\* @transition(field=state, target=...)
AgreementTarget(t) ==
    CASE t = "set_pending"   -> "pending"
      [] t = "set_approved"  -> "approved"
      [] t = "set_active"    -> "active"
      [] t = "set_cancelled" -> "cancelled"
      [] t = "set_erred"     -> "erred"

\* a call of a transition method: django-fsm raises TransitionNotAllowed
\* outside the source states and the object is left as it was
transition(row, t) ==
    IF row.state \in AgreementSource(t)
    THEN [row |-> [row EXCEPT !.state = AgreementTarget(t)], raised |-> "none"]
    ELSE [row |-> row, raised |-> "TransitionNotAllowed"]

\* no token: the field is null until set_pending
NoToken == 0

\* Agreement row with the default state
NewAgreement(c, p) == [customer |-> c, plan |-> p, state |-> "created", token |-> NoToken]

\* agreement.set_pending(approval_url, token)
set_pending(row, token) ==
    LET r == transition(row, "set_pending")
    IN IF r.raised = "none"
       THEN [r EXCEPT !.row = [r.row EXCEPT !.token = token]]
       ELSE r

NoReply == [request |-> <<>>, raised |-> "none"]

AgreementInit ==
    /\ OthersIdle
    /\ droplets = [d \in Droplets |-> Absent]
    /\ chains = <<>>
    /\ actions = <<>>
    /\ alert = [s \in SPLs |-> FALSE]
    /\ response = "none"
    /\ SyncIdle
    /\ plans = <<>>
    /\ agreements \in [1..MaxAgreements -> {NewAgreement(c, "p1") : c \in Customers}]
    /\ quotas = <<>>
    /\ scheduled = <<>>
    /\ reply = NoReply

\* a transition method is called on agreement pk and the agreement is saved
\* if the call does not raise
Call(pk, t) ==
    /\ pk \in DOMAIN agreements
    /\ LET r == IF t = "set_pending"
                THEN set_pending(agreements[pk], pk)
                ELSE transition(agreements[pk], t)
       IN /\ agreements' = [agreements EXCEPT ![pk] = r.row]
          /\ reply' = [request |-> <<t, pk>>, raised |-> r.raised]
    /\ UNCHANGED <<plans, quotas, scheduled>>
    /\ UNCHANGED <<droplets, chains, actions, alert, response, sync, others>>

AgreementNext ==
    \E pk \in 1..MaxAgreements :
        \/ Call(pk, "set_pending")
        \/ Call(pk, "set_approved")
        \/ Call(pk, "set_active")
        \/ Call(pk, "set_cancelled")
        \/ Call(pk, "set_erred")

AgreementSpec == AgreementInit /\ [][AgreementNext]_vars

(* ------------------------- plans: the requests ------------------------ *)

\* a plan not saved yet (pk None), and a saved one
NoPlan == [saved |-> FALSE, is_default |-> FALSE]
Plan(is_default) == [saved |-> TRUE, is_default |-> is_default]

\* plan.backend_id: p1 is synced with the billing backend, p2 is not
plan_backend_id(p) == IF p = "p1" THEN "P-1" ELSE ""

\* faulty variant: the plan being saved is not excluded from the query
clean_NoExclude(tbl, p, is_default) ==
    IF is_default /\ \E q \in PlanIds : tbl[q].saved /\ tbl[q].is_default
    THEN "Cannot create two default plans"
    ELSE "none"

\* Plan.clean on plan p with the given is_default against the table
clean(tbl, p, is_default) ==
    IF is_default /\ \E q \in PlanIds \ {p} : tbl[q].saved /\ tbl[q].is_default
    THEN "Cannot create two default plans"
    ELSE "none"

Replied(view, raised) == [request |-> <<view>>, raised |-> raised]

PlansInit ==
    /\ OthersIdle
    /\ droplets = [d \in Droplets |-> Absent]
    /\ chains = <<>>
    /\ actions = <<>>
    /\ alert = [s \in SPLs |-> FALSE]
    /\ response = "none"
    /\ SyncIdle
    /\ plans = [p \in PlanIds |-> NoPlan]
    /\ agreements = <<>>
    /\ quotas = [c \in Customers |-> "none"]
    /\ scheduled = <<>>
    /\ reply = NoReply

\* a validated save of a plan: full_clean() calls clean(), then save()
save_plan(p, is_default) ==
    /\ LET err == clean(plans, p, is_default)
       IN /\ plans' = IF err = "none"
                      THEN [plans EXCEPT ![p] = Plan(is_default)]
                      ELSE plans
          /\ reply' = Replied("save_plan", err)
    /\ UNCHANGED <<agreements, quotas, scheduled>>
    /\ UNCHANGED <<droplets, chains, actions, alert, response, sync, others>>

\* tasks.push_agreement(agreement): the agreement is pushed to the billing
\* backend and becomes pending with the token the backend gives, or erred
push_agreement(row, token, out) ==
    IF out = "ok"
    THEN set_pending(row, token).row
    ELSE transition(row, "set_erred").row

\* tasks.push_agreement(agreement) is called: the message, with the state the
\* agreement has in the table at the call ("unsaved" when it has no row)
Pushed(pk, state) == [pk |-> pk, seen |-> state]

\* faulty variant: the plan is tested after the agreement is saved and pushed
perform_create_CheckAfterSave(u, c, p) ==
    /\ plans[p].saved
    /\ IF ~has_user(c, u) /\ ~is_staff(u)
       THEN /\ reply' = Replied("perform_create", "PermissionDenied")
            /\ UNCHANGED <<agreements, pushed>>
       ELSE /\ Len(agreements) < MaxAgreements
            /\ LET stored == Append(agreements, NewAgreement(c, p))
                   pk == Len(stored)
               IN \E out \in {"ok", "BillingError"} :
                    /\ agreements' = [stored EXCEPT ![pk] =
                                         push_agreement(stored[pk], pk, out)]
                    /\ pushed' = Append(pushed, Pushed(pk, stored[pk].state))
            /\ reply' = Replied("perform_create",
                                IF plan_backend_id(p) = "" THEN "ValidationError"
                                ELSE "none")
    /\ UNCHANGED <<plans, quotas, scheduled>>
    /\ UNCHANGED <<requests, backend_ssh_keys, ssh_calls>>
    /\ UNCHANGED <<droplets, chains, actions, alert, response, sync>>

\* AgreementViewSet.perform_create
perform_create(u, c, p) ==
    /\ plans[p].saved
    /\ IF ~has_user(c, u) /\ ~is_staff(u)
       THEN /\ reply' = Replied("perform_create", "PermissionDenied")
            /\ UNCHANGED <<agreements, pushed>>
       ELSE IF plan_backend_id(p) = ""
       THEN /\ reply' = Replied("perform_create", "ValidationError")
            /\ UNCHANGED <<agreements, pushed>>
       ELSE /\ Len(agreements) < MaxAgreements
            /\ LET stored == Append(agreements, NewAgreement(c, p))
                   pk == Len(stored)
               IN \E out \in {"ok", "BillingError"} :
                    /\ agreements' = [stored EXCEPT ![pk] =
                                         push_agreement(stored[pk], pk, out)]
                    /\ pushed' = Append(pushed, Pushed(pk, stored[pk].state))
            /\ reply' = Replied("perform_create", "none")
    /\ UNCHANGED <<plans, quotas, scheduled>>
    /\ UNCHANGED <<requests, backend_ssh_keys, ssh_calls>>
    /\ UNCHANGED <<droplets, chains, actions, alert, response, sync>>

\* faulty variant: the role type is not part of the filter
queryset_AnyRole(tbl, u) ==
    {pk \in DOMAIN tbl :
        /\ tbl[pk].state # "cancelled"
        /\ is_staff(u) \/ has_user(tbl[pk].customer, u)}

\* the queryset get_queryset builds over the Agreement table tbl for user u
queryset(tbl, u) ==
    {pk \in DOMAIN tbl :
        /\ tbl[pk].state # "cancelled"
        /\ is_staff(u) \/ owner(u, tbl[pk].customer)}

\* AgreementViewSet.get_queryset: the pks the user sees
get_queryset(u) == queryset(agreements, u)

\* faulty variant: the agreement is looked up by its token alone
get_pending_agreement_AnyState(u, token) ==
    IF token = NoToken
    THEN {}
    ELSE {pk \in get_queryset(u) : agreements[pk].token = token}

\* AgreementViewSet.get_pending_agreement: the pks get() selects from; token
\* is the query parameter, NoToken when the request has none
get_pending_agreement(u, token) ==
    IF token = NoToken
    THEN {}
    ELSE {pk \in get_queryset(u) :
             agreements[pk].token = token /\ agreements[pk].state = "pending"}

\* tasks.activate_agreement.delay(agreement.pk): the message, with the state
\* the saved row has when the message is sent
Delay(pk, state) == [pk |-> pk, seen |-> state]

\* faulty variant: the task is sent before the transition is saved
approve_DelayFirst(u, token) ==
    /\ LET found == get_pending_agreement(u, token)
       IN IF Cardinality(found) = 1
          THEN LET pk == CHOOSE a \in found : TRUE
                   r == transition(agreements[pk], "set_approved")
               IN /\ agreements' = [agreements EXCEPT ![pk] = r.row]
                  /\ scheduled' = Append(scheduled, Delay(pk, agreements[pk].state))
                  /\ reply' = Replied("approve", "none")
          ELSE /\ UNCHANGED <<agreements, scheduled>>
               /\ reply' = Replied("approve", "none")
    /\ UNCHANGED <<plans, quotas>>
    /\ UNCHANGED <<droplets, chains, actions, alert, response, sync, others>>

\* AgreementViewSet.approve
approve(u, token) ==
    /\ LET found == get_pending_agreement(u, token)
       IN IF Cardinality(found) = 1
          THEN LET pk == CHOOSE a \in found : TRUE
                   r == transition(agreements[pk], "set_approved")
               IN /\ agreements' = [agreements EXCEPT ![pk] = r.row]
                  /\ scheduled' = IF r.raised = "none"
                                  THEN Append(scheduled, Delay(pk, r.row.state))
                                  ELSE scheduled
                  /\ reply' = Replied("approve", "none")
          ELSE /\ UNCHANGED <<agreements, scheduled>>
               /\ reply' = Replied("approve",
                                   IF found = {} THEN "none"
                                   ELSE "MultipleObjectsReturned")
    /\ UNCHANGED <<plans, quotas>>
    /\ UNCHANGED <<droplets, chains, actions, alert, response, sync, others>>

\* AgreementViewSet.cancel
cancel(u, token) ==
    /\ LET found == get_pending_agreement(u, token)
       IN IF Cardinality(found) = 1
          THEN LET pk == CHOOSE a \in found : TRUE
                   r == transition(agreements[pk], "set_cancelled")
               IN /\ agreements' = [agreements EXCEPT ![pk] = r.row]
                  /\ reply' = Replied("cancel", "none")
          ELSE /\ UNCHANGED agreements
               /\ reply' = Replied("cancel",
                                   IF found = {} THEN "none"
                                   ELSE "MultipleObjectsReturned")
    /\ UNCHANGED <<plans, quotas, scheduled>>
    /\ UNCHANGED <<droplets, chains, actions, alert, response, sync, others>>

\* Agreement.apply_quotas: the limits of the plan are set on the customer
apply_quotas(q, row) == [q EXCEPT ![row.customer] = row.plan]

\* tasks.activate_agreement(pk): the approved agreement becomes active, its
\* quotas are applied and the customer's other agreements that can be
\* cancelled are cancelled; a failure of the billing backend errs it
activate_agreement ==
    /\ scheduled # <<>>
    /\ LET pk == Head(scheduled).pk
           r == transition(agreements[pk], "set_active")
       IN \E out \in {"ok", "BillingError"} :
            IF out = "ok" /\ r.raised = "none"
            THEN /\ agreements' =
                      [a \in DOMAIN agreements |->
                         IF a = pk THEN r.row
                         ELSE IF agreements[a].customer = r.row.customer
                         THEN transition(agreements[a], "set_cancelled").row
                         ELSE agreements[a]]
                 /\ quotas' = apply_quotas(quotas, r.row)
            ELSE /\ agreements' = [agreements EXCEPT ![pk] =
                                     transition(agreements[pk], "set_erred").row]
                 /\ UNCHANGED quotas
    /\ scheduled' = Tail(scheduled)
    /\ reply' = Replied("activate_agreement", "none")
    /\ UNCHANGED plans
    /\ UNCHANGED <<droplets, chains, actions, alert, response, sync, others>>

\* Agreement.apply_default_plan(customer)
apply_default_plan(c) ==
    /\ LET default == {p \in PlanIds : plans[p].saved /\ plans[p].is_default}
       IN IF default = {}
          THEN /\ UNCHANGED <<agreements, quotas>>
               /\ reply' = Replied("apply_default_plan", "none")
          ELSE IF Cardinality(default) > 1
          THEN /\ UNCHANGED <<agreements, quotas>>
               /\ reply' = Replied("apply_default_plan", "MultipleObjectsReturned")
          ELSE /\ Len(agreements) < MaxAgreements
               /\ LET row == [NewAgreement(c, CHOOSE p \in default : TRUE)
                                 EXCEPT !.state = "active"]
                  IN /\ agreements' = Append(agreements, row)
                     /\ quotas' = apply_quotas(quotas, row)
               /\ reply' = Replied("apply_default_plan", "none")
    /\ UNCHANGED <<plans, scheduled>>
    /\ UNCHANGED <<droplets, chains, actions, alert, response, sync, others>>

PlansNext ==
    \/ \E p \in PlanIds : \E is_default \in BOOLEAN : save_plan(p, is_default)
    \/ \E u \in Users : \E c \in Customers : \E p \in PlanIds : perform_create(u, c, p)
    \/ \E u \in Users : \E token \in 0..MaxAgreements : approve(u, token)
    \/ \E u \in Users : \E token \in 0..MaxAgreements : cancel(u, token)
    \/ activate_agreement
    \/ \E c \in Customers : apply_default_plan(c)

PlansSpec == PlansInit /\ [][PlansNext]_vars

(* ---------------------- plans: the callback views --------------------- *)

\* the rows agreement pk can be: a created agreement has no token yet, any
\* other carries the token the billing backend gave it
CallbackRows(pk) ==
    {[customer |-> c, plan |-> "p1", state |-> st,
      token |-> IF st = "created" THEN NoToken ELSE pk] :
        c \in Customers, st \in AgreementStates}

\* the callback views meet any table of agreements
CallbackInit ==
    /\ OthersIdle
    /\ droplets = [d \in Droplets |-> Absent]
    /\ chains = <<>>
    /\ actions = <<>>
    /\ alert = [s \in SPLs |-> FALSE]
    /\ response = "none"
    /\ SyncIdle
    /\ plans = [p \in PlanIds |-> Plan(FALSE)]
    /\ agreements \in
         {t \in [1..MaxAgreements -> UNION {CallbackRows(pk) : pk \in 1..MaxAgreements}] :
             \A pk \in 1..MaxAgreements : t[pk] \in CallbackRows(pk)}
    /\ quotas = [c \in Customers |-> "none"]
    /\ scheduled = <<>>
    /\ reply = NoReply

CallbackNext ==
    \/ \E u \in Users : \E token \in 0..MaxAgreements : approve(u, token)
    \/ \E u \in Users : \E token \in 0..MaxAgreements : cancel(u, token)

CallbackSpec == CallbackInit /\ [][CallbackNext]_vars

(* --------------------- plans: the agreement list ---------------------- *)

\* the agreement list, GET on the view set: the rows of get_queryset
list(u) ==
    /\ reply' = [request |-> <<"list", u>>, raised |-> "none",
                 data |-> {[pk |-> pk, row |-> agreements[pk]] : pk \in get_queryset(u)}]
    /\ UNCHANGED <<plans, agreements, quotas, scheduled>>
    /\ UNCHANGED <<droplets, chains, actions, alert, response, sync, others>>

ListNext ==
    \/ \E u \in Users : list(u)
    \/ CallbackNext

ListSpec == CallbackInit /\ [][ListNext]_vars

(* ------------- plans: the callback views, statement by statement ------ *)

Views == {"approve", "cancel"}

\* a request received: the view is about to call get_pending_agreement
Request(u, token) ==
    [pc |-> "get_pending_agreement", user |-> u, token |-> token]

\* a request past the lookup: the Agreement instance it holds (NoObject when
\* the lookup returned None) and whether it has saved it
NoObject == [pk |-> 0, row |-> <<>>]
Holding(pc, obj, saved) == [pc |-> pc, obj |-> obj, saved |-> saved]

\* the transition method each view calls
ViewTransition(view) == IF view = "approve" THEN "set_approved" ELSE "set_cancelled"

At(view, pc) == view \in DOMAIN requests /\ requests[view].pc = pc

\* a callback request arrives
receive(view, u, token) ==
    /\ view \notin DOMAIN requests
    /\ requests' = (view :> Request(u, token)) @@ requests
    /\ UNCHANGED <<pushed, backend_ssh_keys, ssh_calls>>
    /\ UNCHANGED <<droplets, chains, actions, alert, response, sync, billing>>

\* agreement = self.get_pending_agreement(); if agreement:
request_get_pending_agreement(view) ==
    /\ At(view, "get_pending_agreement")
    /\ LET found == get_pending_agreement(requests[view].user, requests[view].token)
       IN requests' = [requests EXCEPT ![view] =
              IF found = {}
              THEN Holding("redirect", NoObject, FALSE)
              ELSE LET pk == CHOOSE a \in found : TRUE
                   IN Holding("transition", [pk |-> pk, row |-> agreements[pk]], FALSE)]
    /\ UNCHANGED <<pushed, backend_ssh_keys, ssh_calls>>
    /\ UNCHANGED <<droplets, chains, actions, alert, response, sync, billing>>

\* agreement.set_approved() / agreement.set_cancelled() on the instance the
\* request holds; except TransitionNotAllowed: logger.warning(...)
request_transition(view) ==
    /\ At(view, "transition")
    /\ LET r == transition(requests[view].obj.row, ViewTransition(view))
       IN requests' = [requests EXCEPT ![view] =
              IF r.raised = "none"
              THEN Holding("save", [pk |-> requests[view].obj.pk, row |-> r.row], FALSE)
              ELSE Holding("redirect", requests[view].obj, FALSE)]
    /\ UNCHANGED <<pushed, backend_ssh_keys, ssh_calls>>
    /\ UNCHANGED <<droplets, chains, actions, alert, response, sync, billing>>

\* agreement.save(): every field of the instance is written to its row
request_save(view) ==
    /\ At(view, "save")
    /\ agreements' = [agreements EXCEPT ![requests[view].obj.pk] = requests[view].obj.row]
    /\ requests' = [requests EXCEPT ![view] =
           Holding(IF view = "approve" THEN "delay" ELSE "redirect",
                   requests[view].obj, TRUE)]
    /\ UNCHANGED <<plans, quotas, scheduled, reply>>
    /\ UNCHANGED <<pushed, backend_ssh_keys, ssh_calls>>
    /\ UNCHANGED <<droplets, chains, actions, alert, response, sync>>

\* tasks.activate_agreement.delay(agreement.pk)
request_delay(view) ==
    /\ At(view, "delay")
    /\ LET pk == requests[view].obj.pk
       IN scheduled' = Append(scheduled, Delay(pk, agreements[pk].state))
    /\ requests' = [requests EXCEPT ![view].pc = "redirect"]
    /\ UNCHANGED <<plans, agreements, quotas, reply>>
    /\ UNCHANGED <<pushed, backend_ssh_keys, ssh_calls>>
    /\ UNCHANGED <<droplets, chains, actions, alert, response, sync>>

\* return redirect(BillingBackend().return_url)
request_redirect(view) ==
    /\ At(view, "redirect")
    /\ requests' = [requests EXCEPT ![view].pc = "done"]
    /\ reply' = Replied(view, "none")
    /\ UNCHANGED <<plans, agreements, quotas, scheduled>>
    /\ UNCHANGED <<pushed, backend_ssh_keys, ssh_calls>>
    /\ UNCHANGED <<droplets, chains, actions, alert, response, sync>>

\* one approve and one cancel request, served by two workers
RaceNext ==
    \/ \E view \in Views : \E u \in Users : \E token \in 0..MaxAgreements :
           receive(view, u, token)
    \/ \E view \in Views : request_get_pending_agreement(view)
    \/ \E view \in Views : request_transition(view)
    \/ \E view \in Views : request_save(view)
    \/ \E view \in Views : request_delay(view)
    \/ \E view \in Views : request_redirect(view)

RaceSpec == CallbackInit /\ [][RaceNext]_vars

(* ------------------------------- claims ------------------------------- *)

ChainIds == 1..Len(chains)

Fired(c) == {k \in {"link", "link_error"} : chains[c][k] # "no"}

SomeChainRuns == \E c \in ChainIds : chains[c].pc # "done"

C1_CallbackCount ==
    \A c \in ChainIds :
        chains[c].op \in ChainOps =>
            /\ Cardinality(Fired(c)) <= 1
            /\ (chains[c].pc = "done") = (Cardinality(Fired(c)) = 1)

\* C1: every run of a lifecycle chain (provision, start, stop, restart,
\* resize) fires exactly one terminal callback: the success callback or
\* set_erred, never both, and no dispatched chain stays without one
C1_ExactlyOneTerminalCallback ==
    /\ []C1_CallbackCount
    /\ SomeChainRuns ~> ~SomeChainRuns

C1_Witness ==
    \E c, k \in ChainIds :
        /\ chains[c].pc = "done" /\ chains[c].link = "returned"
        /\ chains[k].pc = "done" /\ chains[k].link_error = "returned"

C2_Bound ==
    \A c \in ChainIds :
        /\ chains[c].retries <= max_retries
        /\ chains[c].pc = "poll" => chains[c].status # "completed"
        /\ chains[c].pc = "link" => chains[c].status = "completed"
        /\ (chains[c].pc = "link_error" /\ chains[c].error = "RuntimeError") =>
               /\ chains[c].retries = max_retries
               /\ chains[c].status \in {"in-progress", "errored"}

C2_Step ==
    \A c \in ChainIds :
        (chains[c].pc = "poll" /\ chains'[c] # chains[c]) =>
            \/ /\ chains'[c].pc = "poll"
               /\ chains'[c].retries = chains[c].retries + 1
               /\ chains'[c].status # "completed"
            \/ /\ chains'[c].pc = "link"
               /\ chains'[c].retries = chains[c].retries
               /\ chains'[c].status = "completed"
            \/ /\ chains'[c].pc = "link_error"
               /\ chains'[c].error \in {"RuntimeError", "DataReadError", "DoesNotExist"}

SomePollerRuns == \E c \in ChainIds : chains[c].pc = "poll"

\* C2: the poller always terminates: it succeeds at the first status check
\* that reports completed, otherwise it is re-queued with one more retry, it
\* fails with RuntimeError once max_retries retries are used up, so it runs
\* at most max_retries + 1 times and never forever
C2_PollerTerminates ==
    /\ []C2_Bound
    /\ [][C2_Step]_vars
    /\ SomePollerRuns ~> ~SomePollerRuns

C2_Witness ==
    \E c \in ChainIds :
        /\ chains[c].pc = "link_error"
        /\ chains[c].error = "RuntimeError"
        /\ chains[c].retries = max_retries

\* C3: once a status check has reported the vendor action as failed
\* (errored) the poller has ended with an error: no further status check is
\* made for that action and the chain is on its failure path
C3_FailedActionEndsPoller ==
    \A c \in ChainIds :
        chains[c].sawErrored => chains[c].pc = "link_error"

\* the requests other than provision, which creates the resource
GuardedOps == Ops \ {"provision"}

\* this step dispatches a task for request op on d
Dispatched(d, op) ==
    /\ Len(chains') = Len(chains) + 1
    /\ chains'[Len(chains')].droplet = d
    /\ chains'[Len(chains')].op = op

\* this step is a forced destroy of d
ForcedDestroy(d) ==
    /\ chains' = chains
    /\ droplets[d].state \in States
    /\ droplets'[d].state = "deleted"

MidTransition(d, op) == droplets[d].state \notin TransitionSource(ScheduleOf(op))

AtMostOneInFlight ==
    \A d \in Droplets :
        Cardinality({c \in ChainIds : chains[c].droplet = d /\ InFlight(c)}) <= 1

C4_RejectedStep ==
    (response' = "rejected" /\ response # "rejected") =>
        UNCHANGED <<droplets, chains, actions, alert>>

C4_DispatchStep ==
    \A d \in Droplets : \A op \in GuardedOps :
        MidTransition(d, op) => ~Dispatched(d, op)

\* d has a chain in flight
Busy(d) == \E c \in ChainIds : chains[c].droplet = d /\ InFlight(c)

C5_EventuallySettled ==
    \A d \in Droplets :
        (\/ droplets[d].state \in Transitional
         \/ \E c \in ChainIds : /\ chains[c].droplet = d
                                /\ chains[c].op \in ChainOps
                                /\ chains[c].pc # "done")
            ~> (droplets[d].state \in Settled)

C5_Witness ==
    \E c \in ChainIds :
        /\ chains[c].op \in ChainOps
        /\ chains[c].pc = "done"
        /\ chains[c].error = "RuntimeError"
        /\ droplets[chains[c].droplet].state = "Erred"

C6_Order ==
    \A c \in ChainIds :
        chains[c].op \in ChainOps =>
            /\ chains[c].pc = "request" =>
                   /\ chains[c].result = NoAction
                   /\ chains[c].polled = NoAction
                   /\ chains[c].status = "none"
            /\ chains[c].polled # NoAction =>
                   /\ chains[c].polled = chains[c].result
                   /\ chains[c].task = "ok"
            /\ chains[c].pc = "link" =>
                   /\ chains[c].status = "completed"
                   /\ chains[c].polled = chains[c].result
                   /\ actions[chains[c].result] = "completed"

C6_Step ==
    \A c \in ChainIds :
        /\ (chains[c].pc = "request" /\ chains'[c].pc = "poll") =>
               /\ Len(actions') = Len(actions) + 1
               /\ chains'[c].result = Len(actions')
        /\ (chains[c].link = "no" /\ chains'[c].link # "no") =>
               /\ chains[c].pc = "link"
               /\ chains[c].status = "completed"
               /\ chains[c].polled = chains[c].result

\* C6: in every chain the steps run in the order request, poll, success
\* callback: the poller only checks the action id the chain's request task
\* returned, and the success callback fires only after a status check of
\* that action reported completed
C6_RequestPollCallbackOrder == []C6_Order /\ [][C6_Step]_vars

C6_Witness ==
    \E c \in ChainIds :
        /\ c > 1
        /\ chains[c].pc = "link"
        /\ chains[c].polled = chains[c].result
        /\ chains[c].retries > 0

\* the latest chain of its droplet
Latest(c) == \A k \in ChainIds : chains[k].droplet = chains[c].droplet => k <= c

C7_ReturnStep ==
    \A c \in ChainIds :
        LET d == chains[c].droplet
        IN /\ (chains[c].link = "no" /\ chains'[c].link = "returned") =>
                  droplets'[d].state = TransitionTarget(LinkOf(chains[c].op))
           /\ (chains[c].link_error = "no" /\ chains'[c].link_error = "returned") =>
                  droplets'[d].state = "Erred"

C7_NotTransitional ==
    \A c \in ChainIds :
        (/\ Latest(c)
         /\ chains[c].pc = "done"
         /\ "returned" \in {chains[c].link, chains[c].link_error}) =>
            droplets[chains[c].droplet].state \notin Transitional

\* C7: when a terminal callback returns, the droplet's state is that of the
\* outcome (Online after set_online, Offline after set_offline and
\* set_resized, Erred after set_erred); no callback has returned with the
\* droplet still in a transitional state
C7_StateReflectsOutcome == []C7_NotTransitional /\ [][C7_ReturnStep]_vars

C7_Witness ==
    \E c \in ChainIds :
        /\ chains[c].op = "stop"
        /\ chains[c].link = "returned"
        /\ droplets[chains[c].droplet].state = "Offline"

\* C8: a TokenScopeError of a request task is surfaced at once: the vendor
\* call was made once, the poller of the chain never runs, the droplet ends
\* Erred and the token-scope alert of the droplet's service project link,
\* and of no other, is open
C8_TokenScopeErrorSurfaced ==
    /\ \A s \in SPLs \ {service_project_link(d) : d \in Droplets} : ~alert[s]
    /\ \A c \in ChainIds :
        chains[c].task = "TokenScopeError" =>
            /\ chains[c].error = "TokenScopeError"
            /\ chains[c].calls = 1
            /\ chains[c].pc \in {"link_error", "done"}
            /\ chains[c].result = NoAction
            /\ chains[c].polled = NoAction
            /\ chains[c].status = "none"
            /\ chains[c].retries = 0
            /\ chains[c].link = "no"
            /\ Latest(c) => alert[service_project_link(chains[c].droplet)]
            /\ (Latest(c) /\ chains[c].pc = "done") =>
                   droplets[chains[c].droplet].state = "Erred"

C8_Witness ==
    \E c \in ChainIds :
        /\ chains[c].op \in ChainOps
        /\ chains[c].task = "TokenScopeError"
        /\ chains[c].pc = "done"
        /\ alert[service_project_link(chains[c].droplet)]

C9_Calls == \A c \in ChainIds : chains[c].opens + chains[c].closes <= 1

C9_Invocation ==
    \A c \in ChainIds :
        (chains[c].task = "none" /\ chains'[c].task # "none") =>
            LET spl == service_project_link(chains[c].droplet)
                after == chains'[c]
            IN CASE after.task = "TokenScopeError" ->
                      /\ alert' = [alert EXCEPT ![spl] = TRUE]
                      /\ after.opens = 1 /\ after.closes = 0
                      /\ after.error = "TokenScopeError"
                 [] after.task = "ok" ->
                      /\ alert' = [alert EXCEPT ![spl] = FALSE]
                      /\ after.opens = 0 /\ after.closes = 1
                      /\ after.error = "none"
                      /\ after.op \in ChainOps =>
                             /\ after.pc = "poll"
                             /\ after.result = Len(actions')
                 [] OTHER ->
                      /\ alert' = alert
                      /\ after.opens = 0 /\ after.closes = 0
                      /\ after.error = after.task

\* C9: an invocation of a task under save_token_scope opens the alert and
\* re-raises when the task raises TokenScopeError, closes the alert and
\* passes the result on when the task succeeds, and touches no alert when
\* the task fails otherwise; it never calls both open and close
C9_SaveTokenScope == []C9_Calls /\ [][C9_Invocation]_vars

C9_Witness ==
    /\ \E c \in ChainIds : chains[c].task = "TokenScopeError" /\ chains[c].opens = 1
    /\ \E c \in ChainIds : chains[c].task = "ok" /\ chains[c].closes = 1

\* C10: a status check of the poller that fails with a vendor or network
\* error does not put the chain on its failure path while retries remain
C10_TransientErrorRetried ==
    \A c \in ChainIds :
        ~(/\ chains[c].pc = "link_error"
          /\ chains[c].error = "DataReadError"
          /\ chains[c].retries < max_retries)

DestroyRuns(c) ==
    /\ chains[c].op = "destroy"
    /\ chains[c].task = "none"
    /\ chains'[c].task # "none"

\* C11: a destroy task whose vendor call failed with NotFoundError has ended
\* with the local droplet removed
C11_NotFoundMeansDestroyed ==
    \A c \in ChainIds :
        (/\ chains[c].op = "destroy"
         /\ chains[c].task = "NotFoundError"
         /\ chains[c].pc = "done"
         /\ Latest(c)) =>
            droplets[chains[c].droplet].state = "deleted"

C19_Run ==
    \A c \in ChainIds :
        DestroyRuns(c) =>
            LET d == chains[c].droplet
                after == chains'[c]
            IN IF after.task = "ok"
               THEN /\ droplets'[d] = Deleted
                    /\ after.error = "none"
               ELSE /\ droplets'[d].state = "Erred"
                    /\ droplets'[d].error_message # ""
                    /\ after.error = after.task

C19_Deleted ==
    \A d \in Droplets :
        droplets[d].state = "deleted" <=>
            \E c \in ChainIds : /\ chains[c].droplet = d
                                 /\ chains[c].op = "destroy"
                                 /\ chains[c].task = "ok"

\* C19: the destroy task deletes the droplet row exactly when the vendor
\* destroy call succeeded; when the call raises, whatever the error, the row
\* is kept in state Erred with the error message and the error is re-raised
C19_DeletedIffVendorDestroyed == []C19_Deleted /\ [][C19_Run]_vars

C19_Witness ==
    \E c, k \in ChainIds :
        /\ chains[c].op = "destroy" /\ chains[c].task = "NotFoundError"
        /\ chains[c].error = "NotFoundError"
        /\ chains[k].op = "destroy" /\ chains[k].task = "ok"
        /\ droplets[chains[k].droplet].state = "deleted"

\* some transition of the state field leads from state a to state b
PermittedEdge(a, b) ==
    \E t \in SyncTransitions : a \in SyncSource(t) /\ b = SyncTarget(t)

\* C12: every operation that writes a droplet's state, pull_droplets
\* included, moves it along a permitted transition edge: a step never stores
\* a state that is not the target of a transition allowed in the current one
C12_OnlyPermittedEdges ==
    [][\A n \in NcDroplets :
          nc_droplets'[n].state # nc_droplets[n].state =>
              PermittedEdge(nc_droplets[n].state, nc_droplets'[n].state)]_vars

\* C14: when pull_droplets has completed, every droplet row of the settings
\* reflects the vendor: erred when its backend id is not among the vendor's
\* droplets, otherwise (state, runtime_state) as mapped from the vendor status
C14_ReflectsVendor ==
    completed =>
        \A n \in NcDroplets :
            LET b == nc_droplets[n].backend_id
                row == <<nc_droplets[n].state, nc_droplets[n].runtime_state>>
                status == IF b \in BackendIds THEN backend_droplets[b] ELSE "absent"
            IN CASE status = "absent"  -> row[1] = "ERRED"
                 [] status = "new"     -> row = <<"CREATING", "provisioning">>
                 [] status = "active"  -> row = <<"OK", "ONLINE">>
                 [] status = "off"     -> row = <<"OK", "OFFLINE">>
                 [] status = "archive" -> row = <<"OK", "archive">>
                 [] OTHER              -> row = <<"ERRED", "error">>

\* C15: a DataReadError of a vendor call leaves the handler as exactly one
\* class: TokenScopeError for the access-denied text, NotFoundError for the
\* resource-not-found text, DigitalOceanBackendError for any other text; a
\* call that raises nothing returns its result unchanged
C15_ErrorClassified ==
    LET raw == handled.raw
        out == handled.out
    IN /\ raw.raised = "DataReadError" =>
            /\ out.raised = (CASE raw.message =
                                    "You do not have access for the attempted action."
                                    -> "TokenScopeError"
                               [] raw.message =
                                    "The resource you were accessing could not be found."
                                    -> "NotFoundError"
                               [] OTHER -> "DigitalOceanBackendError")
            /\ out.message = raw.message
       /\ raw.raised = "none" => out = raw
       /\ out.raised = "none" => raw.raised = "none"

C15_Witness ==
    /\ handled.raw.raised = "DataReadError"
    /\ handled.raw.message = "The resource you were accessing could not be found."
    /\ handled.out.raised = "NotFoundError"
    /\ ~completed

\* C16: every vendor state is given exactly one platform state:
\* _get_instance_state gives Online for RUNNING, Restarting for REBOOTING,
\* Provisioning for PENDING, Offline for TERMINATED, STOPPED, SUSPENDED and
\* PAUSED, Erred for ERROR; _get_volume_state gives OK for AVAILABLE and
\* INUSE, CREATING for CREATING, DELETING for DELETING, UPDATING for
\* ATTACHING; a vendor state outside the tables gives the erred state
C16_VendorStateMapped ==
    /\ instance.node_state # "none" =>
         /\ instance.state \in States
         /\ (instance.state = "Online") = (instance.node_state = "RUNNING")
         /\ (instance.state = "Restarting") = (instance.node_state = "REBOOTING")
         /\ (instance.state = "Provisioning") = (instance.node_state = "PENDING")
         /\ (instance.state = "Offline") =
                (instance.node_state \in {"TERMINATED", "STOPPED", "SUSPENDED", "PAUSED"})
         /\ (instance.state = "Erred") =
                (instance.node_state \notin
                    {"RUNNING", "REBOOTING", "PENDING", "TERMINATED", "STOPPED",
                     "SUSPENDED", "PAUSED"})
    /\ volume.runtime_state # "none" =>
         /\ volume.state \in SyncStates
         /\ (volume.state = "OK") = (volume.runtime_state \in {"AVAILABLE", "INUSE"})
         /\ (volume.state = "CREATING") = (volume.runtime_state = "CREATING")
         /\ (volume.state = "DELETING") = (volume.runtime_state = "DELETING")
         /\ (volume.state = "UPDATING") = (volume.runtime_state = "ATTACHING")
         /\ (volume.state = "ERRED") =
                (volume.runtime_state \notin
                    {"AVAILABLE", "INUSE", "CREATING", "DELETING", "ATTACHING"})

C16_Witness ==
    /\ instance.node_state = "UNKNOWN" /\ instance.state = "Erred"
    /\ volume.runtime_state = "ATTACHING" /\ volume.state = "UPDATING"

\* the edges of the agreement state
C13_Edges ==
    {<<"created", "pending">>, <<"pending", "approved">>, <<"approved", "active">>,
     <<"pending", "cancelled">>, <<"active", "cancelled">>}
    \cup {<<st, "erred">> : st \in AgreementStates}

C13_Attempt ==
    reply' # reply =>
        LET t == reply'.request[1]
            pk == reply'.request[2]
            from == agreements[pk].state
            to == CASE t = "set_pending"   -> "pending"
                    [] t = "set_approved"  -> "approved"
                    [] t = "set_active"    -> "active"
                    [] t = "set_cancelled" -> "cancelled"
                    [] t = "set_erred"     -> "erred"
        IN IF <<from, to>> \in C13_Edges
           THEN /\ reply'.raised = "none"
                /\ agreements'[pk].state = to
           ELSE /\ reply'.raised = "TransitionNotAllowed"
                /\ agreements' = agreements

C13_Change ==
    \A pk \in DOMAIN agreements :
        agreements'[pk].state # agreements[pk].state =>
            <<agreements[pk].state, agreements'[pk].state>> \in C13_Edges

\* C13: the state of an agreement changes only along created -> pending,
\* pending -> approved, approved -> active, pending -> cancelled,
\* active -> cancelled and any -> erred; a transition method called in any
\* other state raises TransitionNotAllowed and changes nothing
C13_AgreementEdges == [][C13_Attempt /\ C13_Change]_vars

C13_Witness ==
    /\ reply.raised = "TransitionNotAllowed"
    /\ reply.request[1] = "set_approved"
    /\ agreements[reply.request[2]].state = "cancelled"
    /\ \E pk \in DOMAIN agreements : agreements[pk].state = "active"

\* C17: whenever an agreement is active, the quotas of its plan are those
\* applied to its customer and every other agreement of that customer is
\* cancelled; so no customer has two active agreements
C17_ActiveAgreementAlone ==
    \A a \in DOMAIN agreements :
        agreements[a].state = "active" =>
            /\ quotas[agreements[a].customer] = agreements[a].plan
            /\ \A b \in DOMAIN agreements \ {a} :
                   agreements[b].customer = agreements[a].customer =>
                       agreements[b].state = "cancelled"

DefaultPlans == {p \in PlanIds : plans[p].saved /\ plans[p].is_default}

C18_Save ==
    \A p \in PlanIds : \A is_default \in BOOLEAN :
        (reply'.request = <<"save_plan">> /\ save_plan(p, is_default)) =>
            IF is_default /\ DefaultPlans \ {p} # {}
            THEN /\ reply'.raised = "Cannot create two default plans"
                 /\ plans' = plans
            ELSE /\ reply'.raised = "none"
                 /\ plans'[p].saved
                 /\ plans'[p].is_default = is_default
                 /\ \A q \in PlanIds \ {p} : plans'[q] = plans[q]

\* C18: there are never two default plans: a validated save of a plan with
\* is_default set is rejected with 'Cannot create two default plans' when
\* another plan is the default and is accepted otherwise
C18_AtMostOneDefaultPlan ==
    /\ [](Cardinality(DefaultPlans) <= 1)
    /\ [][C18_Save]_vars

C18_Witness ==
    /\ reply = Replied("save_plan", "Cannot create two default plans")
    /\ Cardinality(DefaultPlans) = 1
    /\ \E p \in PlanIds : plans[p].saved /\ ~plans[p].is_default

\* the agreements an approve request of user u with the token is about:
\* pending, carrying the token, not cancelled, and of a customer u owns
\* unless u is staff
C20_Match(u, token) ==
    {a \in DOMAIN agreements :
        /\ token # NoToken
        /\ agreements[a].token = token
        /\ agreements[a].state = "pending"
        /\ u = "staff" \/ <<u, agreements[a].customer>> \in
                              {<<"alice", "c1">>, <<"bob", "c2">>}}

C20_Approve ==
    \A u \in Users : \A token \in 0..MaxAgreements :
        (reply'.request = <<"approve">> /\ approve(u, token)) =>
            IF C20_Match(u, token) # {}
            THEN \E a \in C20_Match(u, token) :
                   /\ agreements' = [agreements EXCEPT ![a].state = "approved"]
                   /\ scheduled' = Append(scheduled, [pk |-> a, seen |-> "approved"])
            ELSE UNCHANGED <<agreements, scheduled>>

C20_Scheduled ==
    \A i \in DOMAIN scheduled :
        /\ scheduled[i].seen = "approved"
        /\ \A k \in DOMAIN scheduled : scheduled[k].pk = scheduled[i].pk => k = i

\* C20: approve moves an agreement to approved and sends activate_agreement
\* for it, once, exactly when an agreement the caller sees is pending and
\* carries the token of the request; the message is sent with the approved
\* state already saved
C20_ApproveSchedulesOnce == []C20_Scheduled /\ [][C20_Approve]_vars

C20_Witness ==
    /\ reply = Replied("approve", "none")
    /\ Len(scheduled) = 1
    /\ agreements[scheduled[1].pk].state = "approved"
    /\ \E a \in DOMAIN agreements : agreements[a].state = "pending"

C21_NoMatch(token) ==
    \/ token = NoToken
    \/ ~\E a \in DOMAIN agreements :
           agreements[a].token = token /\ agreements[a].state = "pending"

C21_Callback(u, token) ==
    \/ reply'.request = <<"approve">> /\ approve(u, token)
    \/ reply'.request = <<"cancel">> /\ cancel(u, token)

C21_Step ==
    \A u \in Users : \A token \in 0..MaxAgreements :
        C21_Callback(u, token) =>
            /\ C21_NoMatch(token) =>
                  /\ UNCHANGED <<agreements, scheduled>>
                  /\ reply'.raised = "none"
            /\ \A a \in DOMAIN agreements :
                  agreements[a].state \in {"active", "approved", "created"} =>
                      agreements'[a] = agreements[a]

\* C21: a callback whose request has no token, or whose token is carried by
\* no pending agreement, leaves every agreement and the task queue as they
\* were and still redirects; an active, approved or created agreement is
\* never changed by approve or cancel
C21_NoMatchNoEffect == [][C21_Step]_vars

C21_Witness ==
    /\ reply = Replied("cancel", "none")
    /\ scheduled = <<>>
    /\ \A a \in DOMAIN agreements :
          agreements[a].state \in {"active", "approved", "created"}
    /\ \E a \in DOMAIN agreements : agreements[a].state = "active"

C22_Done == \A view \in Views : At(view, "done")

\* C22: when an approve and a cancel request have both been served, no
\* agreement is cancelled with an activation task scheduled for it, and no
\* agreement is approved although the cancel request saved it
C22_AtMostOneTakesEffect ==
    C22_Done =>
        \A pk \in DOMAIN agreements :
            /\ ~ /\ agreements[pk].state = "cancelled"
                 /\ \E i \in DOMAIN scheduled : scheduled[i].pk = pk
            /\ ~ /\ agreements[pk].state = "approved"
                 /\ requests["cancel"].saved
                 /\ requests["cancel"].obj.pk = pk

C23_Member(u, c) ==
    u = "staff" \/ <<u, c>> \in {<<"alice", "c1">>, <<"bob", "c1">>, <<"bob", "c2">>}

C23_Create ==
    \A u \in Users : \A c \in Customers : \A p \in PlanIds :
        (reply'.request = <<"perform_create">> /\ perform_create(u, c, p)) =>
            IF ~C23_Member(u, c)
            THEN /\ reply'.raised = "PermissionDenied"
                 /\ UNCHANGED <<agreements, pushed>>
            ELSE IF p # "p1"
            THEN /\ reply'.raised = "ValidationError"
                 /\ UNCHANGED <<agreements, pushed>>
            ELSE /\ reply'.raised = "none"
                 /\ Len(agreements') = Len(agreements) + 1
                 /\ \A a \in DOMAIN agreements : agreements'[a] = agreements[a]
                 /\ agreements'[Len(agreements')].customer = c
                 /\ agreements'[Len(agreements')].plan = p
                 /\ pushed' = Append(pushed,
                        [pk |-> Len(agreements'), seen |-> "created"])

C23_Pushed ==
    \A i \in DOMAIN pushed :
        /\ pushed[i].pk \in DOMAIN agreements
        /\ pushed[i].seen = "created"
        /\ \A k \in DOMAIN pushed : pushed[k].pk = pushed[i].pk => k = i

\* C23: perform_create raises PermissionDenied for a user who is neither in
\* the customer nor staff and ValidationError for a plan without backend id,
\* storing no agreement and pushing nothing; otherwise it stores one
\* agreement and pushes it, once, after it is stored
C23_CreateChecksThenStoresThenPushes == []C23_Pushed /\ [][C23_Create]_vars

C23_Witness ==
    /\ reply = Replied("perform_create", "ValidationError")
    /\ Len(agreements) = 1
    /\ pushed = <<[pk |-> 1, seen |-> "created"]>>
    /\ agreements[1].state = "pending"

C24_Owns(u, c) == <<u, c>> \in {<<"alice", "c1">>, <<"bob", "c2">>}

\* the list user u would get from the table with row pk replaced by row
C24_Shown(u, pk, row) ==
    LET tbl == [agreements EXCEPT ![pk] = row]
    IN {[pk |-> a, row |-> tbl[a]] : a \in queryset(tbl, u)}

C24_List ==
    \A u \in Users :
        (reply'.request = <<"list", u>> /\ list(u)) =>
            /\ \A e \in reply'.data :
                 /\ e.row = agreements[e.pk]
                 /\ e.row.state # "cancelled"
                 /\ u # "staff" => C24_Owns(u, e.row.customer)
            /\ u # "staff" =>
                 \A pk \in DOMAIN agreements : \A row \in CallbackRows(pk) :
                     (~C24_Owns(u, agreements[pk].customer) /\ ~C24_Owns(u, row.customer))
                         => reply'.data = C24_Shown(u, pk, row)

\* C24: the agreement list holds no cancelled agreement; for a user who is
\* not staff it holds only agreements of customers the user owns, and it is
\* the same whatever the agreements of the other customers are
C24_ListShowsOwnNotCancelled == [][C24_List]_vars

C24_Witness ==
    /\ reply.request = <<"list", "bob">>
    /\ reply.data # {}
    /\ \E a \in DOMAIN agreements :
          /\ agreements[a].customer = "c1"
          /\ agreements[a].state = "pending"
          /\ \A e \in reply.data : e.pk # a

C25_Ops == {"start", "stop", "restart", "destroy"}

C25_Source(op) ==
    CASE op = "start"   -> {"Offline"}
      [] op = "stop"    -> {"Online"}
      [] op = "restart" -> {"Online"}
      [] op = "destroy" -> {"Offline", "Erred"}

C25_Scheduled(op) ==
    CASE op = "start"   -> "Starting Scheduled"
      [] op = "stop"    -> "Stopping Scheduled"
      [] op = "restart" -> "Restarting Scheduled"
      [] op = "destroy" -> "Deletion Scheduled"

C25_Step ==
    \A d \in Droplets :
        /\ \A op \in C25_Ops :
             Schedule(d, op, droplets[d].size) =>
                 IF droplets[d].state \in C25_Source(op)
                 THEN /\ droplets'[d].state = C25_Scheduled(op)
                      /\ Len(chains') = Len(chains) + 1
                      /\ SubSeq(chains', 1, Len(chains)) = chains
                      /\ chains'[Len(chains')].op = op
                      /\ chains'[Len(chains')].droplet = d
                      /\ chains'[Len(chains')].pc = "request"
                 ELSE UNCHANGED <<droplets, chains>>
        /\ destroy_force(d) =>
             /\ droplets'[d].state = "deleted"
             /\ UNCHANGED chains

\* a task that waits in the queue finds the scheduled state saved, unless the
\* record was deleted by force meanwhile
C25_Queued ==
    \A c \in DOMAIN chains :
        (chains[c].pc = "request" /\ chains[c].op \in C25_Ops) =>
            droplets[chains[c].droplet].state \in
                {C25_Scheduled(chains[c].op), "deleted"}

\* C25: start, stop, restart and destroy without force apply the scheduling
\* transition and send the task with the scheduled state saved; a request
\* outside the source states of the transition sends nothing; destroy with
\* force deletes the record, sends nothing and applies no transition
C25_ScheduleThenDispatch == []C25_Queued /\ [][C25_Step]_vars

C25_Witness ==
    /\ Len(chains) = 2
    /\ chains[2].op = "restart"
    /\ chains[2].pc = "request"
    /\ droplets[chains[2].droplet].state = "Restarting Scheduled"
    /\ response = "accepted"

C26_Remove ==
    \A f \in Fingerprints :
        (ssh_calls'.fingerprint = f /\ remove_ssh_key(f)) =>
            /\ ssh_calls'.destroys \in {0, 1}
            /\ ssh_calls'.pulled = "NotFoundError" =>
                 /\ ~backend_ssh_keys[f]
                 /\ ssh_calls'.destroys = 0
                 /\ ssh_calls'.raised = "none"
                 /\ UNCHANGED backend_ssh_keys
            /\ ssh_calls'.pulled = "none" =>
                 /\ backend_ssh_keys[f]
                 /\ ssh_calls'.destroys = 1
            /\ ssh_calls'.pulled \notin {"NotFoundError", "none"} =>
                 /\ ssh_calls'.destroys = 0
                 /\ ssh_calls'.raised = ssh_calls'.pulled
            /\ (ssh_calls'.destroys = 1 /\ ssh_calls'.raised = "none") =>
                 ~backend_ssh_keys'[f]

\* C26: when the lookup of the key raises NotFoundError, remove_ssh_key calls
\* no destroy and raises nothing; when the lookup returns the key, destroy is
\* called once; any other error of the lookup is raised and nothing is
\* destroyed
C26_RemoveMissingKeyIsNoOp == [][C26_Remove]_vars

C26_Witness ==
    /\ ssh_calls.pulled = "NotFoundError"
    /\ ssh_calls.destroys = 0
    /\ ssh_calls.raised = "none"
    /\ ~backend_ssh_keys["f1"]
    /\ ssh_calls.fingerprint = "f1"
    /\ backend_ssh_keys["f2"]

====
